---- MODULE Spec2Model ----
(***************************************************************************)
(* Model of the toaster sideband filter driver (filter_sideband.c).        *)
(*                                                                         *)
(* Every filter device instance d is one thread of control: the framework  *)
(* calls FilterEvtDeviceAdd for it and, after that call has returned,      *)
(* FilterEvtDeviceContextCleanup; both callbacks are split at every point  *)
(* where another thread can run in between (every lock operation and every *)
(* framework call made without the lock).  One more thread dispatches the  *)
(* requests of the control device's sequential queue to                    *)
(* FilterEvtIoDeviceControl.                                               *)
(***************************************************************************)
EXTENDS Integers, Sequences, FiniteSets, TLC

\* ---------------------------------------------------------------- bounds
NumDevices == 2
\* how many framework calls may fail in one run
MaxFaults == 1

Devices == 1 .. NumDevices

\* ------------------------------------------------------------- constants
\* a NULL handle (WDFDEVICE / PWDFDEVICE_INIT)
NULL == 0
\* owner value of the wait lock when nobody holds it
NoOwner == 0
\* the thread that runs the control device's queue callback
QueryThread == NumDevices + 1

STATUS_NONE == "STATUS_NONE"
STATUS_SUCCESS == "STATUS_SUCCESS"
STATUS_UNSUCCESSFUL == "STATUS_UNSUCCESSFUL"
STATUS_INSUFFICIENT_RESOURCES == "STATUS_INSUFFICIENT_RESOURCES"
STATUS_OBJECT_NAME_COLLISION == "STATUS_OBJECT_NAME_COLLISION"

NT_SUCCESS(s) == s = STATUS_SUCCESS

\* The UINumber the bus driver reports for instance d.
UINumber(d) == 10 * d

\* serialNo is a local without initializer: when WdfFdoInitQueryProperty
\* fails its value is whatever the stack held.
UninitializedULONG == {0, 10}

\* what FilterGetData(NULL)->SerialNo would read
BadRead == -1

VARIABLES
    pc,                         \* position of each instance's thread
    FilterDeviceCollection,     \* the global WDFCOLLECTION, as a sequence
    FilterDeviceCollectionLock, \* owner of the global WDFWAITLOCK
    ControlDevice,              \* the global WDFDEVICE handle
    objState,                   \* state of the control device object made by d
    objDeletes,                 \* WdfObjectDelete calls on that object
    initFrees,                  \* WdfDeviceInitFree calls on d's pInit
    status,                     \* local status of FilterEvtDeviceAdd
    cstatus,                    \* local status of FilterCreateControlDevice
    serialNo,                   \* local serialNo of FilterEvtDeviceAdd
    SerialNo,                   \* filterExt->SerialNo of instance d
    bCreate,                    \* local of FilterCreateControlDevice
    pInit,                      \* local of FilterCreateControlDevice
    controlDevice,              \* local of FilterCreateControlDevice
    count,                      \* local of FilterEvtDeviceContextCleanup
    addResult,                  \* value FilterEvtDeviceAdd returned
    addFailed,                  \* instances whose WdfCollectionAdd failed
    regOrder,                   \* instances in the order WdfCollectionAdd took them
    qpc,                        \* position of the queue callback
    noItems,                    \* local of FilterEvtIoDeviceControl
    i,                          \* local of FilterEvtIoDeviceControl
    printed,                    \* serial numbers the callback has printed
    qstatus,                    \* status the request was completed with
    faults,                     \* framework calls that have failed so far
    createCalls                 \* times the creation protocol was entered

devVars == <<pc, status, cstatus, serialNo, SerialNo, bCreate, pInit,
             controlDevice, count, addResult, addFailed, regOrder>>
objVars == <<objState, objDeletes, initFrees, createCalls>>
envVars == <<objState, objDeletes, initFrees, createCalls, faults>>
qVars == <<qpc, noItems, i, printed, qstatus>>
vars == <<pc, FilterDeviceCollection, FilterDeviceCollectionLock,
          ControlDevice, objState, objDeletes, initFrees, status, cstatus,
          serialNo, SerialNo, bCreate, pInit, controlDevice, count,
          addResult, addFailed, regOrder, qpc, noItems, i, printed, qstatus,
          faults, createCalls>>

\* ------------------------------------------------------ framework objects
Range(s) == {s[k] : k \in 1 .. Len(s)}

\* WdfCollectionGetCount
WdfCollectionGetCount(coll) == Len(coll)

\* mutant of WdfCollectionAdd: the item goes to the front
WdfCollectionAdd_Front(coll, item) == <<item>> \o coll

\* WdfCollectionAdd, when it succeeds: the item goes to the end
WdfCollectionAdd(coll, item) == Append(coll, item)

\* mutant of WdfCollectionRemove: the item stays in the collection
WdfCollectionRemove_Keep(coll, item) == coll

\* WdfCollectionRemove: takes the first entry that holds the item out;
\* an item that is not in the collection leaves it as it is
WdfCollectionRemove(coll, item) ==
    IF item \in Range(coll)
    THEN LET k == CHOOSE j \in 1 .. Len(coll) :
                      /\ coll[j] = item
                      /\ \A m \in 1 .. (j - 1) : coll[m] # item
         IN  [m \in 1 .. (Len(coll) - 1) |->
                  IF m < k THEN coll[m] ELSE coll[m + 1]]
    ELSE coll

\* WdfCollectionGetItem: zero-based index, NULL past the end
WdfCollectionGetItem(coll, index) ==
    IF index + 1 \in 1 .. Len(coll) THEN coll[index + 1] ELSE NULL

\* FilterGetData(h)->SerialNo
FilterGetSerialNo(h) == IF h \in Devices THEN SerialNo[h] ELSE BadRead

\* mutant of LockAvailable: the acquisition does not wait for the owner
LockAvailable_NoWait == TRUE

\* WdfWaitLockAcquire(FilterDeviceCollectionLock, NULL) returns only when
\* nobody owns the lock
LockAvailable == FilterDeviceCollectionLock = NoOwner

\* A control device object is live from WdfDeviceCreate to WdfObjectDelete.
LiveObjects == {o \in Devices : objState[o] \in {"created", "ready"}}

\* \Device\ToasterFilter is one name: WdfDeviceCreate can bind it only
\* while no live device object holds it.
NameFree == LiveObjects = {}

Init ==
    /\ pc = [d \in Devices |-> "idle"]
    /\ FilterDeviceCollection = <<>>
    /\ FilterDeviceCollectionLock = NoOwner
    /\ ControlDevice = NULL
    /\ objState = [d \in Devices |-> "none"]
    /\ objDeletes = [d \in Devices |-> 0]
    /\ initFrees = [d \in Devices |-> 0]
    /\ status = [d \in Devices |-> STATUS_NONE]
    /\ cstatus = [d \in Devices |-> STATUS_NONE]
    /\ serialNo = [d \in Devices |-> 0]
    /\ SerialNo = [d \in Devices |-> 0]
    /\ bCreate = [d \in Devices |-> FALSE]
    /\ pInit = [d \in Devices |-> "null"]
    /\ controlDevice = [d \in Devices |-> NULL]
    /\ count = [d \in Devices |-> 0]
    /\ addResult = [d \in Devices |-> STATUS_NONE]
    /\ addFailed = {}
    /\ regOrder = <<>>
    /\ qpc = "idle"
    /\ noItems = 0
    /\ i = 0
    /\ printed = <<>>
    /\ qstatus = STATUS_NONE
    /\ faults = 0
    /\ createCalls = 0

\* ------------------------------------------------------ FilterEvtDeviceAdd
\* mutant of AddReturnStatus: the status of FilterCreateControlDevice is
\* returned as it is
AddReturnStatus_PassThrough(s) == s

\* What FilterEvtDeviceAdd returns once FilterCreateControlDevice has
\* returned s: a failure of the control device is not passed on.
AddReturnStatus(s) == IF ~NT_SUCCESS(s) THEN STATUS_SUCCESS ELSE s

\* mutant of AfterQueryProperty: a failed query ends the attachment
AfterQueryProperty_FailBlocks(s) ==
    IF NT_SUCCESS(s) THEN "a_devcreate" ELSE "nodevice"

\* Where FilterEvtDeviceAdd continues once WdfFdoInitQueryProperty has
\* returned s: a failure is only printed and WdfDeviceCreate comes next.
AfterQueryProperty(s) == "a_devcreate"

\* WdfFdoInitQueryProperty succeeds: serialNo is the UINumber
AddQueryPropertyOk(d) ==
    /\ pc[d] = "idle"
    /\ status' = [status EXCEPT ![d] = STATUS_SUCCESS]
    /\ serialNo' = [serialNo EXCEPT ![d] = UINumber(d)]
    /\ pc' = [pc EXCEPT ![d] = AfterQueryProperty(STATUS_SUCCESS)]
    /\ UNCHANGED <<FilterDeviceCollection, FilterDeviceCollectionLock,
                   ControlDevice, cstatus, SerialNo, bCreate, pInit,
                   controlDevice, count, addResult, addFailed, regOrder>>
    /\ UNCHANGED envVars
    /\ UNCHANGED qVars

\* WdfFdoInitQueryProperty fails: logged, serialNo stays uninitialized
AddQueryPropertyFail(d) ==
    /\ pc[d] = "idle"
    /\ status' = [status EXCEPT ![d] = STATUS_UNSUCCESSFUL]
    /\ \E v \in UninitializedULONG :
           serialNo' = [serialNo EXCEPT ![d] = v]
    /\ pc' = [pc EXCEPT ![d] = AfterQueryProperty(STATUS_UNSUCCESSFUL)]
    /\ UNCHANGED <<FilterDeviceCollection, FilterDeviceCollectionLock,
                   ControlDevice, cstatus, SerialNo, bCreate, pInit,
                   controlDevice, count, addResult, addFailed, regOrder>>
    /\ faults < MaxFaults
    /\ faults' = faults + 1
    /\ UNCHANGED objVars
    /\ UNCHANGED qVars

\* WdfDeviceCreate of the filter device succeeds; the serial number goes
\* into the device extension
AddDeviceCreateOk(d) ==
    /\ pc[d] = "a_devcreate"
    /\ status' = [status EXCEPT ![d] = STATUS_SUCCESS]
    /\ SerialNo' = [SerialNo EXCEPT ![d] = serialNo[d]]
    /\ pc' = [pc EXCEPT ![d] = "a_lock"]
    /\ UNCHANGED <<FilterDeviceCollection, FilterDeviceCollectionLock,
                   ControlDevice, cstatus, serialNo, bCreate, pInit,
                   controlDevice, count, addResult, addFailed, regOrder>>
    /\ UNCHANGED envVars
    /\ UNCHANGED qVars

\* WdfDeviceCreate of the filter device fails: FilterEvtDeviceAdd returns
\* the failure, there is no device and no cleanup callback
AddDeviceCreateFail(d) ==
    /\ pc[d] = "a_devcreate"
    /\ status' = [status EXCEPT ![d] = STATUS_INSUFFICIENT_RESOURCES]
    /\ addResult' = [addResult EXCEPT ![d] = STATUS_INSUFFICIENT_RESOURCES]
    /\ pc' = [pc EXCEPT ![d] = "nodevice"]
    /\ UNCHANGED <<FilterDeviceCollection, FilterDeviceCollectionLock,
                   ControlDevice, cstatus, serialNo, SerialNo, bCreate,
                   pInit, controlDevice, count, addFailed, regOrder>>
    /\ faults < MaxFaults
    /\ faults' = faults + 1
    /\ UNCHANGED objVars
    /\ UNCHANGED qVars

\* WdfWaitLockAcquire before the insertion
AddAcquire(d) ==
    /\ pc[d] = "a_lock"
    /\ LockAvailable
    /\ FilterDeviceCollectionLock' = d
    /\ pc' = [pc EXCEPT ![d] = "a_add"]
    /\ UNCHANGED <<FilterDeviceCollection, ControlDevice, status, cstatus,
                   serialNo, SerialNo, bCreate, pInit, controlDevice, count,
                   addResult, addFailed, regOrder>>
    /\ UNCHANGED envVars
    /\ UNCHANGED qVars

\* WdfCollectionAdd succeeds
AddCollectionAddOk(d) ==
    /\ pc[d] = "a_add"
    /\ FilterDeviceCollection' = WdfCollectionAdd(FilterDeviceCollection, d)
    /\ regOrder' = Append(regOrder, d)
    /\ status' = [status EXCEPT ![d] = STATUS_SUCCESS]
    /\ pc' = [pc EXCEPT ![d] = "a_unlock"]
    /\ UNCHANGED <<FilterDeviceCollectionLock, ControlDevice, cstatus,
                   serialNo, SerialNo, bCreate, pInit, controlDevice, count,
                   addResult, addFailed>>
    /\ UNCHANGED envVars
    /\ UNCHANGED qVars

\* WdfCollectionAdd fails: logged, nothing else
AddCollectionAddFail(d) ==
    /\ pc[d] = "a_add"
    /\ status' = [status EXCEPT ![d] = STATUS_INSUFFICIENT_RESOURCES]
    /\ addFailed' = addFailed \cup {d}
    /\ pc' = [pc EXCEPT ![d] = "a_unlock"]
    /\ UNCHANGED <<FilterDeviceCollection, FilterDeviceCollectionLock,
                   ControlDevice, cstatus, serialNo, SerialNo, bCreate,
                   pInit, controlDevice, count, addResult, regOrder>>
    /\ faults < MaxFaults
    /\ faults' = faults + 1
    /\ UNCHANGED objVars
    /\ UNCHANGED qVars

\* WdfWaitLockRelease after the insertion; FilterCreateControlDevice is
\* called next
AddRelease(d) ==
    /\ pc[d] = "a_unlock"
    /\ FilterDeviceCollectionLock' = NoOwner
    /\ pc' = [pc EXCEPT ![d] = "c_lock"]
    /\ UNCHANGED <<FilterDeviceCollection, ControlDevice, status, cstatus,
                   serialNo, SerialNo, bCreate, pInit, controlDevice, count,
                   addResult, addFailed, regOrder>>
    /\ UNCHANGED envVars
    /\ UNCHANGED qVars

\* status = FilterCreateControlDevice(device); a failure becomes
\* STATUS_SUCCESS; return status.  The locals of both functions end here;
\* cstatus stays as the record of what FilterCreateControlDevice returned.
AddReturn(d) ==
    /\ pc[d] = "a_ret"
    /\ addResult' = [addResult EXCEPT ![d] = AddReturnStatus(cstatus[d])]
    /\ status' = [status EXCEPT ![d] = STATUS_NONE]
    /\ serialNo' = [serialNo EXCEPT ![d] = 0]
    /\ bCreate' = [bCreate EXCEPT ![d] = FALSE]
    /\ pInit' = [pInit EXCEPT ![d] = "null"]
    /\ controlDevice' = [controlDevice EXCEPT ![d] = NULL]
    /\ initFrees' = [initFrees EXCEPT ![d] = 0]
    /\ pc' = [pc EXCEPT ![d] = "active"]
    /\ UNCHANGED <<FilterDeviceCollection, FilterDeviceCollectionLock,
                   ControlDevice, cstatus, SerialNo, count, addFailed,
                   regOrder, objState, objDeletes>>
    /\ UNCHANGED <<faults, createCalls>>
    /\ UNCHANGED qVars

\* ----------------------------------------------- FilterCreateControlDevice
\* mutant of IsFirstInstance: any non-empty collection asks for a creation
IsFirstInstance_AtLeastOne(n) == n >= 1

\* the test that decides to create: the collection holds exactly one device
IsFirstInstance(n) == n = 1

\* WdfWaitLockAcquire before the count check
CreateAcquire(d) ==
    /\ pc[d] = "c_lock"
    /\ LockAvailable
    /\ FilterDeviceCollectionLock' = d
    /\ pc' = [pc EXCEPT ![d] = "c_check"]
    /\ UNCHANGED <<FilterDeviceCollection, ControlDevice, status, cstatus,
                   serialNo, SerialNo, bCreate, pInit, controlDevice, count,
                   addResult, addFailed, regOrder>>
    /\ UNCHANGED envVars
    /\ UNCHANGED qVars

\* if (WdfCollectionGetCount(FilterDeviceCollection) == 1) bCreate = TRUE
CreateCheck(d) ==
    /\ pc[d] = "c_check"
    /\ bCreate' = [bCreate EXCEPT ![d] =
           IsFirstInstance(WdfCollectionGetCount(FilterDeviceCollection))]
    /\ pc' = [pc EXCEPT ![d] = "c_unlock"]
    /\ UNCHANGED <<FilterDeviceCollection, FilterDeviceCollectionLock,
                   ControlDevice, status, cstatus, serialNo, SerialNo, pInit,
                   controlDevice, count, addResult, addFailed, regOrder>>
    /\ UNCHANGED envVars
    /\ UNCHANGED qVars

\* WdfWaitLockRelease; with bCreate the creation goes on without the lock
CreateReleaseCreate(d) ==
    /\ pc[d] = "c_unlock"
    /\ bCreate[d]
    /\ FilterDeviceCollectionLock' = NoOwner
    /\ pc' = [pc EXCEPT ![d] = "c_init"]
    /\ UNCHANGED <<FilterDeviceCollection, ControlDevice, status, cstatus,
                   serialNo, SerialNo, bCreate, pInit, controlDevice, count,
                   addResult, addFailed, regOrder>>
    /\ createCalls' = createCalls + 1
    /\ UNCHANGED <<objState, objDeletes, initFrees, faults>>
    /\ UNCHANGED qVars

\* mutant of CreateReleaseSkip: the early return forgets the release
CreateReleaseSkip_NoRelease(d) ==
    /\ pc[d] = "c_unlock"
    /\ ~bCreate[d]
    /\ cstatus' = [cstatus EXCEPT ![d] = STATUS_SUCCESS]
    /\ pc' = [pc EXCEPT ![d] = "a_ret"]
    /\ UNCHANGED <<FilterDeviceCollection, FilterDeviceCollectionLock,
                   ControlDevice, status, serialNo, SerialNo, bCreate, pInit,
                   controlDevice, count, addResult, addFailed, regOrder>>
    /\ UNCHANGED envVars
    /\ UNCHANGED qVars

\* WdfWaitLockRelease; without bCreate: return STATUS_SUCCESS
CreateReleaseSkip(d) ==
    /\ pc[d] = "c_unlock"
    /\ ~bCreate[d]
    /\ FilterDeviceCollectionLock' = NoOwner
    /\ cstatus' = [cstatus EXCEPT ![d] = STATUS_SUCCESS]
    /\ pc' = [pc EXCEPT ![d] = "a_ret"]
    /\ UNCHANGED <<FilterDeviceCollection, ControlDevice, status, serialNo,
                   SerialNo, bCreate, pInit, controlDevice, count, addResult,
                   addFailed, regOrder>>
    /\ UNCHANGED envVars
    /\ UNCHANGED qVars

\* WdfControlDeviceInitAllocate returns a WDFDEVICE_INIT
CreateInitAllocateOk(d) ==
    /\ pc[d] = "c_init"
    /\ pInit' = [pInit EXCEPT ![d] = "allocated"]
    /\ pc' = [pc EXCEPT ![d] = "c_name"]
    /\ UNCHANGED <<FilterDeviceCollection, FilterDeviceCollectionLock,
                   ControlDevice, status, cstatus, serialNo, SerialNo,
                   bCreate, controlDevice, count, addResult, addFailed,
                   regOrder>>
    /\ UNCHANGED envVars
    /\ UNCHANGED qVars

\* WdfControlDeviceInitAllocate returns NULL
CreateInitAllocateFail(d) ==
    /\ pc[d] = "c_init"
    /\ cstatus' = [cstatus EXCEPT ![d] = STATUS_INSUFFICIENT_RESOURCES]
    /\ pc' = [pc EXCEPT ![d] = "c_error"]
    /\ UNCHANGED <<FilterDeviceCollection, FilterDeviceCollectionLock,
                   ControlDevice, status, serialNo, SerialNo, bCreate, pInit,
                   controlDevice, count, addResult, addFailed, regOrder>>
    /\ faults < MaxFaults
    /\ faults' = faults + 1
    /\ UNCHANGED objVars
    /\ UNCHANGED qVars

\* WdfDeviceInitSetExclusive, WdfDeviceInitAssignName succeeds
CreateAssignNameOk(d) ==
    /\ pc[d] = "c_name"
    /\ cstatus' = [cstatus EXCEPT ![d] = STATUS_SUCCESS]
    /\ pc' = [pc EXCEPT ![d] = "c_devcreate"]
    /\ UNCHANGED <<FilterDeviceCollection, FilterDeviceCollectionLock,
                   ControlDevice, status, serialNo, SerialNo, bCreate, pInit,
                   controlDevice, count, addResult, addFailed, regOrder>>
    /\ UNCHANGED envVars
    /\ UNCHANGED qVars

\* WdfDeviceInitAssignName fails
CreateAssignNameFail(d) ==
    /\ pc[d] = "c_name"
    /\ cstatus' = [cstatus EXCEPT ![d] = STATUS_INSUFFICIENT_RESOURCES]
    /\ pc' = [pc EXCEPT ![d] = "c_error"]
    /\ UNCHANGED <<FilterDeviceCollection, FilterDeviceCollectionLock,
                   ControlDevice, status, serialNo, SerialNo, bCreate, pInit,
                   controlDevice, count, addResult, addFailed, regOrder>>
    /\ faults < MaxFaults
    /\ faults' = faults + 1
    /\ UNCHANGED objVars
    /\ UNCHANGED qVars

\* WdfDeviceCreate succeeds: the object exists, pInit is consumed (set to
\* NULL by the framework)
CreateDeviceCreateOk(d) ==
    /\ pc[d] = "c_devcreate"
    /\ NameFree
    /\ cstatus' = [cstatus EXCEPT ![d] = STATUS_SUCCESS]
    /\ pInit' = [pInit EXCEPT ![d] = "null"]
    /\ controlDevice' = [controlDevice EXCEPT ![d] = d]
    /\ objState' = [objState EXCEPT ![d] = "created"]
    /\ pc' = [pc EXCEPT ![d] = "c_symlink"]
    /\ UNCHANGED <<FilterDeviceCollection, FilterDeviceCollectionLock,
                   ControlDevice, status, serialNo, SerialNo, bCreate, count,
                   addResult, addFailed, regOrder, objDeletes, initFrees>>
    /\ UNCHANGED <<faults, createCalls>>
    /\ UNCHANGED qVars

\* WdfDeviceCreate fails for want of memory: pInit stays with the caller
CreateDeviceCreateFail(d) ==
    /\ pc[d] = "c_devcreate"
    /\ cstatus' = [cstatus EXCEPT ![d] = STATUS_INSUFFICIENT_RESOURCES]
    /\ pc' = [pc EXCEPT ![d] = "c_error"]
    /\ UNCHANGED <<FilterDeviceCollection, FilterDeviceCollectionLock,
                   ControlDevice, status, serialNo, SerialNo, bCreate, pInit,
                   controlDevice, count, addResult, addFailed, regOrder>>
    /\ faults < MaxFaults
    /\ faults' = faults + 1
    /\ UNCHANGED objVars
    /\ UNCHANGED qVars

\* WdfDeviceCreate fails because the name is taken: pInit stays with the
\* caller
CreateDeviceCreateCollision(d) ==
    /\ pc[d] = "c_devcreate"
    /\ ~NameFree
    /\ cstatus' = [cstatus EXCEPT ![d] = STATUS_OBJECT_NAME_COLLISION]
    /\ pc' = [pc EXCEPT ![d] = "c_error"]
    /\ UNCHANGED <<FilterDeviceCollection, FilterDeviceCollectionLock,
                   ControlDevice, status, serialNo, SerialNo, bCreate, pInit,
                   controlDevice, count, addResult, addFailed, regOrder>>
    /\ UNCHANGED envVars
    /\ UNCHANGED qVars

\* WdfDeviceCreateSymbolicLink succeeds
CreateSymbolicLinkOk(d) ==
    /\ pc[d] = "c_symlink"
    /\ cstatus' = [cstatus EXCEPT ![d] = STATUS_SUCCESS]
    /\ pc' = [pc EXCEPT ![d] = "c_queue"]
    /\ UNCHANGED <<FilterDeviceCollection, FilterDeviceCollectionLock,
                   ControlDevice, status, serialNo, SerialNo, bCreate, pInit,
                   controlDevice, count, addResult, addFailed, regOrder>>
    /\ UNCHANGED envVars
    /\ UNCHANGED qVars

\* WdfDeviceCreateSymbolicLink fails
CreateSymbolicLinkFail(d) ==
    /\ pc[d] = "c_symlink"
    /\ cstatus' = [cstatus EXCEPT ![d] = STATUS_INSUFFICIENT_RESOURCES]
    /\ pc' = [pc EXCEPT ![d] = "c_error"]
    /\ UNCHANGED <<FilterDeviceCollection, FilterDeviceCollectionLock,
                   ControlDevice, status, serialNo, SerialNo, bCreate, pInit,
                   controlDevice, count, addResult, addFailed, regOrder>>
    /\ faults < MaxFaults
    /\ faults' = faults + 1
    /\ UNCHANGED objVars
    /\ UNCHANGED qVars

\* WdfIoQueueCreate succeeds
CreateQueueOk(d) ==
    /\ pc[d] = "c_queue"
    /\ cstatus' = [cstatus EXCEPT ![d] = STATUS_SUCCESS]
    /\ pc' = [pc EXCEPT ![d] = "c_finish"]
    /\ UNCHANGED <<FilterDeviceCollection, FilterDeviceCollectionLock,
                   ControlDevice, status, serialNo, SerialNo, bCreate, pInit,
                   controlDevice, count, addResult, addFailed, regOrder>>
    /\ UNCHANGED envVars
    /\ UNCHANGED qVars

\* WdfIoQueueCreate fails
CreateQueueFail(d) ==
    /\ pc[d] = "c_queue"
    /\ cstatus' = [cstatus EXCEPT ![d] = STATUS_INSUFFICIENT_RESOURCES]
    /\ pc' = [pc EXCEPT ![d] = "c_error"]
    /\ UNCHANGED <<FilterDeviceCollection, FilterDeviceCollectionLock,
                   ControlDevice, status, serialNo, SerialNo, bCreate, pInit,
                   controlDevice, count, addResult, addFailed, regOrder>>
    /\ faults < MaxFaults
    /\ faults' = faults + 1
    /\ UNCHANGED objVars
    /\ UNCHANGED qVars

\* WdfControlFinishInitializing: the object accepts requests from here on
CreateFinishInitializing(d) ==
    /\ pc[d] = "c_finish"
    /\ objState' = [objState EXCEPT ![controlDevice[d]] = "ready"]
    /\ pc' = [pc EXCEPT ![d] = "c_set"]
    /\ UNCHANGED <<FilterDeviceCollection, FilterDeviceCollectionLock,
                   ControlDevice, status, cstatus, serialNo, SerialNo,
                   bCreate, pInit, controlDevice, count, addResult,
                   addFailed, regOrder, objDeletes, initFrees>>
    /\ UNCHANGED <<faults, createCalls>>
    /\ UNCHANGED qVars

\* ControlDevice = controlDevice; return STATUS_SUCCESS
CreateSetControlDevice(d) ==
    /\ pc[d] = "c_set"
    /\ ControlDevice' = controlDevice[d]
    /\ cstatus' = [cstatus EXCEPT ![d] = STATUS_SUCCESS]
    /\ pc' = [pc EXCEPT ![d] = "a_ret"]
    /\ UNCHANGED <<FilterDeviceCollection, FilterDeviceCollectionLock,
                   status, serialNo, SerialNo, bCreate, pInit, controlDevice,
                   count, addResult, addFailed, regOrder>>
    /\ UNCHANGED envVars
    /\ UNCHANGED qVars

\* mutant of ErrorDeletesDevice: the Error label forgets the object
ErrorDeletesDevice_Never(c) == FALSE

\* The Error label frees pInit when it is not NULL ...
ErrorFreesInit(p) == p # "null"
\* ... and deletes controlDevice when it is not NULL
ErrorDeletesDevice(c) == c # NULL

\* Error: WdfDeviceInitFree(pInit), WdfObjectDelete(controlDevice),
\* return status
CreateError(d) ==
    /\ pc[d] = "c_error"
    /\ IF ErrorFreesInit(pInit[d])
       THEN initFrees' = [initFrees EXCEPT ![d] = @ + 1]
       ELSE UNCHANGED initFrees
    /\ IF ErrorDeletesDevice(controlDevice[d])
       THEN /\ objState' = [objState EXCEPT ![controlDevice[d]] = "rolledback"]
            /\ objDeletes' = [objDeletes EXCEPT ![controlDevice[d]] = @ + 1]
            /\ controlDevice' = [controlDevice EXCEPT ![d] = NULL]
       ELSE UNCHANGED <<objState, objDeletes, controlDevice>>
    /\ pc' = [pc EXCEPT ![d] = "a_ret"]
    /\ UNCHANGED <<FilterDeviceCollection, FilterDeviceCollectionLock,
                   ControlDevice, status, cstatus, serialNo, SerialNo,
                   bCreate, pInit, count, addResult, addFailed, regOrder>>
    /\ UNCHANGED <<faults, createCalls>>
    /\ UNCHANGED qVars

\* ------------------------------------------- FilterEvtDeviceContextCleanup
\* mutant of IsLastInstance: every cleanup takes itself for the last one
IsLastInstance_Always(n) == n >= 1

\* the test that decides to delete the control device: count == 1
IsLastInstance(n) == n = 1

\* mutant of CleanupAcquire: the cleanup callback goes on without the lock
CleanupAcquire_NoLock(d) ==
    /\ pc[d] = "active"
    /\ pc' = [pc EXCEPT ![d] = "x_count"]
    /\ UNCHANGED <<FilterDeviceCollection, FilterDeviceCollectionLock,
                   ControlDevice, status, cstatus, serialNo, SerialNo,
                   bCreate, pInit, controlDevice, count, addResult,
                   addFailed, regOrder>>
    /\ UNCHANGED envVars
    /\ UNCHANGED qVars

\* The framework calls the cleanup callback of a device whose
\* FilterEvtDeviceAdd has returned; WdfWaitLockAcquire
CleanupAcquire(d) ==
    /\ pc[d] = "active"
    /\ LockAvailable
    /\ FilterDeviceCollectionLock' = d
    /\ pc' = [pc EXCEPT ![d] = "x_count"]
    /\ UNCHANGED <<FilterDeviceCollection, ControlDevice, status, cstatus,
                   serialNo, SerialNo, bCreate, pInit, controlDevice, count,
                   addResult, addFailed, regOrder>>
    /\ UNCHANGED envVars
    /\ UNCHANGED qVars

\* count = WdfCollectionGetCount(FilterDeviceCollection)
CleanupGetCount(d) ==
    /\ pc[d] = "x_count"
    /\ count' = [count EXCEPT ![d] =
                     WdfCollectionGetCount(FilterDeviceCollection)]
    /\ pc' = [pc EXCEPT ![d] = "x_delete"]
    /\ UNCHANGED <<FilterDeviceCollection, FilterDeviceCollectionLock,
                   ControlDevice, status, cstatus, serialNo, SerialNo,
                   bCreate, pInit, controlDevice, addResult, addFailed,
                   regOrder>>
    /\ UNCHANGED envVars
    /\ UNCHANGED qVars

\* mutant of FilterDeleteControlDevice: the object is deleted and the
\* global keeps pointing to it
FilterDeleteControlDevice_NoClear ==
    IF ControlDevice # NULL
    THEN /\ objState' = [objState EXCEPT ![ControlDevice] = "deleted"]
         /\ objDeletes' = [objDeletes EXCEPT ![ControlDevice] = @ + 1]
         /\ UNCHANGED ControlDevice
    ELSE UNCHANGED <<objState, objDeletes, ControlDevice>>

\* FilterDeleteControlDevice: if (ControlDevice) { WdfObjectDelete(
\* ControlDevice); ControlDevice = NULL; }
FilterDeleteControlDevice ==
    IF ControlDevice # NULL
    THEN /\ objState' = [objState EXCEPT ![ControlDevice] = "deleted"]
         /\ objDeletes' = [objDeletes EXCEPT ![ControlDevice] = @ + 1]
         /\ ControlDevice' = NULL
    ELSE UNCHANGED <<objState, objDeletes, ControlDevice>>

\* if (count == 1) FilterDeleteControlDevice(Device)
CleanupDelete(d) ==
    /\ pc[d] = "x_delete"
    /\ IF IsLastInstance(count[d])
       THEN FilterDeleteControlDevice
       ELSE UNCHANGED <<objState, objDeletes, ControlDevice>>
    /\ pc' = [pc EXCEPT ![d] = "x_remove"]
    /\ UNCHANGED <<FilterDeviceCollection, FilterDeviceCollectionLock,
                   status, cstatus, serialNo, SerialNo, bCreate, pInit,
                   controlDevice, count, addResult, addFailed, regOrder,
                   initFrees>>
    /\ UNCHANGED <<faults, createCalls>>
    /\ UNCHANGED qVars

\* WdfCollectionRemove(FilterDeviceCollection, Device)
CleanupRemove(d) ==
    /\ pc[d] = "x_remove"
    /\ FilterDeviceCollection' = WdfCollectionRemove(FilterDeviceCollection, d)
    /\ pc' = [pc EXCEPT ![d] = "x_unlock"]
    /\ UNCHANGED <<FilterDeviceCollectionLock, ControlDevice, status,
                   cstatus, serialNo, SerialNo, bCreate, pInit,
                   controlDevice, count, addResult, addFailed, regOrder>>
    /\ UNCHANGED envVars
    /\ UNCHANGED qVars

\* WdfWaitLockRelease; the callback returns and the framework frees the
\* device with its extension
CleanupRelease(d) ==
    /\ pc[d] = "x_unlock"
    /\ FilterDeviceCollectionLock' = NoOwner
    /\ count' = [count EXCEPT ![d] = 0]
    /\ SerialNo' = [SerialNo EXCEPT ![d] = 0]
    /\ cstatus' = [cstatus EXCEPT ![d] = STATUS_NONE]
    /\ addFailed' = addFailed \ {d}
    /\ pc' = [pc EXCEPT ![d] = "gone"]
    /\ UNCHANGED <<FilterDeviceCollection, ControlDevice, status, serialNo,
                   bCreate, pInit, controlDevice, addResult, regOrder>>
    /\ UNCHANGED envVars
    /\ UNCHANGED qVars

\* ------------------------------------------------ FilterEvtIoDeviceControl
\* The sequential queue of a control device that has finished initializing
\* hands one request to the callback; the next one only after the callback
\* has completed the request.
QueryDispatch ==
    /\ qpc \in {"idle", "completed"}
    /\ \E o \in Devices : objState[o] = "ready"
    /\ qpc' = "q_lock"
    /\ noItems' = 0
    /\ i' = 0
    /\ printed' = <<>>
    /\ qstatus' = STATUS_NONE
    /\ UNCHANGED <<FilterDeviceCollection, FilterDeviceCollectionLock,
                   ControlDevice>>
    /\ UNCHANGED devVars
    /\ UNCHANGED envVars

\* WdfWaitLockAcquire
QueryAcquire ==
    /\ qpc = "q_lock"
    /\ LockAvailable
    /\ FilterDeviceCollectionLock' = QueryThread
    /\ qpc' = "q_count"
    /\ UNCHANGED <<FilterDeviceCollection, ControlDevice, noItems, i,
                   printed, qstatus>>
    /\ UNCHANGED devVars
    /\ UNCHANGED envVars

\* noItems = WdfCollectionGetCount(FilterDeviceCollection); i = 0
QueryGetCount ==
    /\ qpc = "q_count"
    /\ noItems' = WdfCollectionGetCount(FilterDeviceCollection)
    /\ i' = 0
    /\ qpc' = "q_loop"
    /\ UNCHANGED <<FilterDeviceCollection, FilterDeviceCollectionLock,
                   ControlDevice, printed, qstatus>>
    /\ UNCHANGED devVars
    /\ UNCHANGED envVars

\* one turn of the loop: hFilterDevice = WdfCollectionGetItem(.., i),
\* KdPrint of its SerialNo, i++
QueryGetItem ==
    /\ qpc = "q_loop"
    /\ i < noItems
    /\ printed' = Append(printed,
           FilterGetSerialNo(WdfCollectionGetItem(FilterDeviceCollection, i)))
    /\ i' = i + 1
    /\ UNCHANGED <<FilterDeviceCollection, FilterDeviceCollectionLock,
                   ControlDevice, qpc, noItems, qstatus>>
    /\ UNCHANGED devVars
    /\ UNCHANGED envVars

\* the loop ends
QueryLoopEnd ==
    /\ qpc = "q_loop"
    /\ ~(i < noItems)
    /\ qpc' = "q_unlock"
    /\ UNCHANGED <<FilterDeviceCollection, FilterDeviceCollectionLock,
                   ControlDevice, noItems, i, printed, qstatus>>
    /\ UNCHANGED devVars
    /\ UNCHANGED envVars

\* WdfWaitLockRelease
QueryRelease ==
    /\ qpc = "q_unlock"
    /\ FilterDeviceCollectionLock' = NoOwner
    /\ qpc' = "q_complete"
    /\ UNCHANGED <<FilterDeviceCollection, ControlDevice, noItems, i,
                   printed, qstatus>>
    /\ UNCHANGED devVars
    /\ UNCHANGED envVars

\* WdfRequestCompleteWithInformation(Request, STATUS_SUCCESS, 0); the
\* callback returns and its locals end
QueryComplete ==
    /\ qpc = "q_complete"
    /\ qstatus' = STATUS_SUCCESS
    /\ noItems' = 0
    /\ i' = 0
    /\ qpc' = "completed"
    /\ UNCHANGED <<FilterDeviceCollection, FilterDeviceCollectionLock,
                   ControlDevice, printed>>
    /\ UNCHANGED devVars
    /\ UNCHANGED envVars

\* ----------------------------------------------------------- specification
AddStep(d) ==
    \/ AddQueryPropertyOk(d)
    \/ AddQueryPropertyFail(d)
    \/ AddDeviceCreateOk(d)
    \/ AddDeviceCreateFail(d)
    \/ AddAcquire(d)
    \/ AddCollectionAddOk(d)
    \/ AddCollectionAddFail(d)
    \/ AddRelease(d)
    \/ AddReturn(d)

CreateStep(d) ==
    \/ CreateAcquire(d)
    \/ CreateCheck(d)
    \/ CreateReleaseCreate(d)
    \/ CreateReleaseSkip(d)
    \/ CreateInitAllocateOk(d)
    \/ CreateInitAllocateFail(d)
    \/ CreateAssignNameOk(d)
    \/ CreateAssignNameFail(d)
    \/ CreateDeviceCreateOk(d)
    \/ CreateDeviceCreateFail(d)
    \/ CreateDeviceCreateCollision(d)
    \/ CreateSymbolicLinkOk(d)
    \/ CreateSymbolicLinkFail(d)
    \/ CreateQueueOk(d)
    \/ CreateQueueFail(d)
    \/ CreateFinishInitializing(d)
    \/ CreateSetControlDevice(d)
    \/ CreateError(d)

CleanupStep(d) ==
    \/ CleanupAcquire(d)
    \/ CleanupGetCount(d)
    \/ CleanupDelete(d)
    \/ CleanupRemove(d)
    \/ CleanupRelease(d)

QueryStep ==
    \/ QueryDispatch
    \/ QueryAcquire
    \/ QueryGetCount
    \/ QueryGetItem
    \/ QueryLoopEnd
    \/ QueryRelease
    \/ QueryComplete

Next ==
    \/ \E d \in Devices : AddStep(d)
    \/ \E d \in Devices : CreateStep(d)
    \/ \E d \in Devices : CleanupStep(d)
    \/ QueryStep

Spec == Init /\ [][Next]_vars

\* ------------------------------------------------------------- vocabulary
Registered(d) == d \in Range(FilterDeviceCollection)

\* positions inside FilterEvtDeviceAdd, FilterCreateControlDevice included
AddPcs == {"a_devcreate", "a_lock", "a_add", "a_unlock", "c_lock", "c_check",
           "c_unlock", "c_init", "c_name", "c_devcreate", "c_symlink",
           "c_queue", "c_finish", "c_set", "c_error", "a_ret"}
\* positions of the creation protocol, entered with bCreate = TRUE
ProtocolPcs == {"c_init", "c_name", "c_devcreate", "c_symlink", "c_queue",
                "c_finish", "c_set", "c_error"}
\* positions inside FilterEvtDeviceContextCleanup
CleanupPcs == {"x_count", "x_delete", "x_remove", "x_unlock"}
\* positions at which a device thread owns the lock
LockedPcs == {"a_add", "a_unlock", "c_check", "c_unlock", "x_count",
              "x_delete", "x_remove", "x_unlock"}

InFlight(d) == pc[d] \in AddPcs \cup CleanupPcs
QueryInFlight == qpc \in {"q_lock", "q_count", "q_loop", "q_unlock", "q_complete"}
Quiescent == ~QueryInFlight /\ \A d \in Devices : ~InFlight(d)

\* --------------------------------------------------------- fair scheduling
\* A callback that the framework has entered keeps running: its thread is
\* scheduled again and again and WdfWaitLockAcquire hands the lock to a
\* waiter that finds it free again and again (strong fairness, because
\* another thread can take the lock in between). When a device appears or
\* disappears and when a request is sent is up to the environment and under
\* no fairness.
DeviceRun(d) ==
    /\ pc[d] \in AddPcs \cup CleanupPcs
    /\ (AddStep(d) \/ CreateStep(d) \/ CleanupStep(d))
QueryRun ==
    /\ QueryInFlight
    /\ QueryStep
FairSpec ==
    /\ Init
    /\ [][Next]_vars
    /\ \A d \in Devices : SF_vars(DeviceRun(d))
    /\ SF_vars(QueryRun)

\* ------------------------------------- events one at a time, nothing fails
\* A callback starts only when no other callback is running and every
\* framework call succeeds.
SeqStart ==
    /\ Quiescent
    /\ \/ \E d \in Devices : AddQueryPropertyOk(d)
       \/ \E d \in Devices : CleanupAcquire(d)
       \/ QueryDispatch

SeqAdd(d) ==
    \/ AddDeviceCreateOk(d)
    \/ AddAcquire(d)
    \/ AddCollectionAddOk(d)
    \/ AddRelease(d)
    \/ AddReturn(d)

SeqCreate(d) ==
    \/ CreateAcquire(d)
    \/ CreateCheck(d)
    \/ CreateReleaseCreate(d)
    \/ CreateReleaseSkip(d)
    \/ CreateInitAllocateOk(d)
    \/ CreateAssignNameOk(d)
    \/ CreateDeviceCreateOk(d)
    \/ CreateSymbolicLinkOk(d)
    \/ CreateQueueOk(d)
    \/ CreateFinishInitializing(d)
    \/ CreateSetControlDevice(d)

SeqCleanup(d) ==
    \/ CleanupGetCount(d)
    \/ CleanupDelete(d)
    \/ CleanupRemove(d)
    \/ CleanupRelease(d)

SeqQuery ==
    \/ QueryAcquire
    \/ QueryGetCount
    \/ QueryGetItem
    \/ QueryLoopEnd
    \/ QueryRelease
    \/ QueryComplete

SeqNext ==
    \/ SeqStart
    \/ \E d \in Devices : SeqAdd(d)
    \/ \E d \in Devices : SeqCreate(d)
    \/ \E d \in Devices : SeqCleanup(d)
    \/ SeqQuery

SpecSeq == Init /\ [][SeqNext]_vars

\* ------------------------------------------------------------------ claims

\* C1: the control device exists (ControlDevice is set) exactly when the
\* collection is non-empty.  Stated here in its weakest reading, for the
\* states in which no callback is running and no framework call has ever
\* failed; the claim asserts it for every reachable state.
C1_ChannelIffRegistryNonEmpty ==
    (Quiescent /\ faults = 0) =>
        ((ControlDevice # NULL) <=> (Len(FilterDeviceCollection) > 0))

\* C2: once two FilterEvtDeviceAdd calls that started from an empty
\* collection have both returned (both devices registered, nothing failed,
\* nothing else has happened), the creation protocol has run exactly once.
C2_ExactlyOneCreation ==
    (/\ Cardinality({d \in Devices : pc[d] = "active"}) = 2
     /\ \A d \in Devices : pc[d] \in {"active", "idle"}
     /\ faults = 0
     /\ qpc = "idle") => createCalls = 1

\* C3: no thread is inside the creation protocol while a control device
\* object made by an earlier run of the protocol is still live (registration
\* and every framework call having succeeded).
C3_NoCreationWhileChannelLive ==
    faults = 0 =>
        \A d \in Devices :
            pc[d] \in ProtocolPcs => LiveObjects \subseteq {d}

\* C5: FilterEvtDeviceAdd returns a failure status whenever WdfCollectionAdd
\* failed.
C5_RegistrationFailureSurfaced ==
    \A d \in Devices :
        (pc[d] = "active" /\ d \in addFailed) => ~NT_SUCCESS(addResult[d])

\* C4: with the callbacks one at a time and nothing failing, after each
\* event the control device exists exactly when the collection is
\* non-empty (and it is then the one live, initialized object); the creation
\* protocol is entered only by the appearance that makes the collection
\* non-empty, and a set ControlDevice changes only by being cleared while the
\* last device is being removed.
C4_AfterEachEvent ==
    Quiescent =>
        /\ (ControlDevice # NULL) <=> (Len(FilterDeviceCollection) > 0)
        /\ ControlDevice # NULL =>
               (objState[ControlDevice] = "ready" /\ LiveObjects = {ControlDevice})
        /\ ControlDevice = NULL => LiveObjects = {}
C4_EventStep ==
    /\ createCalls' # createCalls =>
           (ControlDevice = NULL /\ Len(FilterDeviceCollection) = 1)
    /\ (ControlDevice # NULL /\ ControlDevice' # ControlDevice) =>
           (ControlDevice' = NULL /\ Len(FilterDeviceCollection) = 1)
C4_SequentialLifecycle == []C4_AfterEachEvent /\ [][C4_EventStep]_vars
\* a non-last device has disappeared and the channel of the first one is kept
C4_Witness ==
    /\ Quiescent
    /\ ControlDevice # NULL
    /\ \E d, e \in Devices : pc[d] = "gone" /\ pc[e] = "active"

\* C6: whenever the filter device object was created, FilterEvtDeviceAdd
\* returns STATUS_SUCCESS whatever FilterCreateControlDevice returned, and a
\* device that was put into the collection is still in it.
C6_AttachmentSucceeds ==
    \A d \in Devices :
        pc[d] = "active" =>
            /\ addResult[d] = STATUS_SUCCESS
            /\ d \notin addFailed => Registered(d)
\* FilterCreateControlDevice failed, the device is attached and registered
C6_Witness ==
    \E d \in Devices :
        /\ pc[d] = "active"
        /\ ~NT_SUCCESS(cstatus[d])
        /\ addResult[d] = STATUS_SUCCESS
        /\ Registered(d)

\* C7: when FilterCreateControlDevice returns a failure, the init context
\* it still owned has been freed exactly once, the object it had created has
\* been deleted exactly once, nothing of the attempt is live or referenced by
\* ControlDevice, and no step of the failing path writes ControlDevice.
C7_RolledBack ==
    \A d \in Devices :
        (pc[d] = "a_ret" /\ ~NT_SUCCESS(cstatus[d])) =>
            /\ initFrees[d] = (IF pInit[d] = "allocated" THEN 1 ELSE 0)
            /\ controlDevice[d] = NULL
            /\ objState[d] \in {"none", "rolledback"}
            /\ objDeletes[d] = (IF objState[d] = "rolledback" THEN 1 ELSE 0)
            /\ ControlDevice # d
C7_FailingStep ==
    \A d \in Devices :
        (\/ (pc[d] # "c_error" /\ pc'[d] = "c_error")
         \/ (pc[d] = "c_error" /\ pc'[d] = "a_ret")) =>
            ControlDevice' = ControlDevice
C8_RegistryRecordsLive ==
    /\ \A j, k \in 1 .. Len(FilterDeviceCollection) :
           j # k => FilterDeviceCollection[j] # FilterDeviceCollection[k]
    /\ \A d \in Devices :
           Registered(d) =>
               /\ d \notin addFailed
               /\ pc[d] \in (AddPcs \ {"a_devcreate", "a_lock", "a_add"})
                            \cup {"active", "x_count", "x_delete", "x_remove"}
\* one device is gone while another one is registered
C8_Witness ==
    \E d, e \in Devices : pc[d] = "gone" /\ Registered(e)

\* C9: while FilterEvtIoDeviceControl enumerates, it owns the lock, no
\* device thread is inside a critical section, the count it read is the
\* length of the collection, the index stays within it, and what it has
\* printed is the serial numbers of the first i entries, each entry once.
C9_QuerySnapshot ==
    qpc \in {"q_count", "q_loop", "q_unlock"} =>
        /\ FilterDeviceCollectionLock = QueryThread
        /\ \A d \in Devices : pc[d] \notin LockedPcs
        /\ qpc # "q_count" =>
               /\ noItems = Len(FilterDeviceCollection)
               /\ i <= noItems
               /\ Len(printed) = i
               /\ \A k \in 1 .. i :
                      /\ FilterDeviceCollection[k] \in Devices
                      /\ printed[k] = SerialNo[FilterDeviceCollection[k]]
                      /\ \A j \in 1 .. (k - 1) :
                             FilterDeviceCollection[j] # FilterDeviceCollection[k]
\* the enumeration is under way while an appearing device waits for the lock
C9_Witness ==
    /\ qpc = "q_loop"
    /\ i >= 1
    /\ \E d \in Devices : pc[d] = "a_lock"

\* the devices that are still registered, in the order of registration
Surviving == SelectSeq(regOrder, Registered)

\* C10: when the enumeration loop has ended, the callback has printed one
\* serial number per registered device, in the order in which the surviving
\* devices were registered (the UINumbers, when no call failed); the request
\* is completed with STATUS_SUCCESS.
C10_QueryEnumeratesRegistry ==
    /\ qpc = "q_unlock" =>
           /\ FilterDeviceCollection = Surviving
           /\ Len(printed) = Len(Surviving)
           /\ \A k \in 1 .. Len(Surviving) :
                  /\ printed[k] = SerialNo[Surviving[k]]
                  /\ faults = 0 => printed[k] = UINumber(Surviving[k])
    /\ qpc = "completed" => qstatus = STATUS_SUCCESS
\* Scenario 3: the first of two devices is gone, the query prints <<20>>
C10_Witness ==
    /\ qpc = "q_unlock"
    /\ pc[1] = "gone"
    /\ printed = <<UINumber(2)>>

\* C11: FilterCreateControlDevice called while the control device exists
\* runs no creation protocol: a thread that has decided to create (bCreate
\* set under the lock) finds ControlDevice NULL, no framework call having
\* failed.
C11_NoCreationWhenChannelExists ==
    faults = 0 =>
        \A d \in Devices :
            (pc[d] = "c_unlock" /\ bCreate[d]) => ControlDevice = NULL

\* C12: once every instance that appeared has disappeared and no callback
\* is running, no control device object is live and ControlDevice is NULL.
C12_NoChannelLeftBehind ==
    (Quiescent /\ \A d \in Devices : pc[d] # "active") =>
        (LiveObjects = {} /\ ControlDevice = NULL)

\* C13: a failed WdfFdoInitQueryProperty never blocks the attachment. The
\* step that leaves the query goes to WdfDeviceCreate whatever the query
\* returned and touches no shared state; FilterEvtDeviceAdd ends without a
\* device only on the failure of WdfDeviceCreate; a device attached with a
\* serial number that is not its UINumber (the query failed) has called
\* FilterCreateControlDevice, got STATUS_SUCCESS from FilterEvtDeviceAdd and
\* is in the collection unless WdfCollectionAdd failed.
C13_AfterAttachment ==
    \A d \in Devices :
        /\ pc[d] = "nodevice" =>
               /\ status[d] = STATUS_INSUFFICIENT_RESOURCES
               /\ addResult[d] = STATUS_INSUFFICIENT_RESOURCES
        /\ (pc[d] = "active" /\ SerialNo[d] # UINumber(d)) =>
               /\ addResult[d] = STATUS_SUCCESS
               /\ cstatus[d] # STATUS_NONE
               /\ d \notin addFailed => Registered(d)
C13_QueryStep ==
    \A d \in Devices :
        (pc[d] = "idle" /\ pc'[d] # "idle") =>
            /\ pc'[d] = "a_devcreate"
            /\ UNCHANGED <<FilterDeviceCollection, FilterDeviceCollectionLock,
                           ControlDevice, addResult>>
C13_IdentificationFailureNonBlocking ==
    []C13_AfterAttachment /\ [][C13_QueryStep]_vars
\* the query failed and left 0 in serialNo; the device is attached,
\* registered and FilterEvtDeviceAdd returned STATUS_SUCCESS
C13_Witness ==
    \E d \in Devices :
        /\ pc[d] = "active"
        /\ SerialNo[d] # UINumber(d)
        /\ Registered(d)
        /\ addResult[d] = STATUS_SUCCESS
        /\ ControlDevice = d

\* C14: in FilterEvtDeviceContextCleanup the count, the deletion of the
\* control device and the removal from the collection are inside one
\* acquisition of the lock, deletion before removal. From the count to the
\* release the thread owns the lock, no other thread is at a position that
\* inserts, removes, counts or enumerates, the count it took is still the
\* length of the collection when it deletes and when it removes, and the
\* device is still in the collection (unless WdfCollectionAdd had failed)
\* until the deletion step is over.
C14_CleanupOneCriticalSection ==
    \A d \in Devices :
        pc[d] \in CleanupPcs =>
            /\ FilterDeviceCollectionLock = d
            /\ \A e \in Devices \ {d} : pc[e] \notin LockedPcs
            /\ qpc \notin {"q_count", "q_loop", "q_unlock"}
            /\ pc[d] \in {"x_delete", "x_remove"} =>
                   count[d] = WdfCollectionGetCount(FilterDeviceCollection)
            /\ (pc[d] \in {"x_count", "x_delete", "x_remove"}
                    /\ d \notin addFailed) => Registered(d)
            /\ pc[d] = "x_unlock" => ~Registered(d)
\* the last device has deleted the control device and is about to remove
\* itself while another thread waits for the lock
C14_Witness ==
    \E d \in Devices :
        /\ pc[d] = "x_remove"
        /\ IsLastInstance(count[d])
        /\ Registered(d)
        /\ ControlDevice = NULL
        /\ \E o \in Devices : objState[o] = "deleted"
        /\ \/ \E e \in Devices \ {d} : pc[e] \in {"a_lock", "c_lock"}
           \/ qpc = "q_lock"

\* C15: the count check of FilterCreateControlDevice and the creation
\* protocol up to the assignment of ControlDevice are inside one acquisition
\* of the lock: a thread inside the creation protocol owns the lock.
C15_CreateOneCriticalSection ==
    \A d \in Devices :
        pc[d] \in ProtocolPcs => FilterDeviceCollectionLock = d

\* C16: every insertion into and removal from the collection and every write
\* of ControlDevice is made by a thread that owns the lock: a thread about
\* to execute WdfCollectionAdd, WdfCollectionRemove, FilterDeleteControlDevice
\* or ControlDevice = controlDevice owns the lock.
C16_MutationsUnderLock ==
    \A d \in Devices :
        pc[d] \in {"a_add", "x_delete", "x_remove", "c_set"} =>
            FilterDeviceCollectionLock = d

\* C17: FilterEvtDeviceContextCleanup of a device deletes the control device
\* only when the collection holds exactly that device.
C17_DestroyedOnlyBySoleRecord ==
    \A d \in Devices :
        (pc[d] = "x_delete" /\ IsLastInstance(count[d])
                            /\ ControlDevice # NULL) =>
            FilterDeviceCollection = <<d>>

\* C18: ControlDevice is never dangling or half-initialized. A set
\* ControlDevice names an object on which WdfControlFinishInitializing has
\* completed and which was never deleted; ControlDevice is set only to an
\* object that is already through its last creation step, and the step
\* that deletes a finished object is the step that clears ControlDevice.
C18_HandleValid ==
    ControlDevice # NULL =>
        /\ objState[ControlDevice] = "ready"
        /\ objDeletes[ControlDevice] = 0
C18_HandleStep ==
    /\ (ControlDevice' # NULL /\ ControlDevice' # ControlDevice) =>
           objState[ControlDevice'] = "ready"
    /\ \A o \in Devices :
           (objState'[o] = "deleted" /\ objState[o] # "deleted") =>
               (ControlDevice = o /\ ControlDevice' = NULL)
    /\ (ControlDevice # NULL /\ ControlDevice' = NULL) =>
           objState'[ControlDevice] = "deleted"
C18_HandleNeverDangling == []C18_HandleValid /\ [][C18_HandleStep]_vars
\* a first control device was deleted and ControlDevice names a second one
C18_Witness ==
    /\ ControlDevice # NULL
    /\ objState[ControlDevice] = "ready"
    /\ \E o \in Devices : objState[o] = "deleted"

\* C19: the lock is released on every path before the callback returns:
\* a thread owns the lock exactly at the positions between its
\* WdfWaitLockAcquire and its WdfWaitLockRelease, so the lock is free when
\* no thread is at such a position; the lock is only ever taken when it is
\* free; and under fair scheduling the lock is free again and again and
\* every FilterEvtDeviceAdd, FilterEvtDeviceContextCleanup and
\* FilterEvtIoDeviceControl that has started comes to its end.
C19_LockMatchesPosition ==
    /\ \A d \in Devices :
           FilterDeviceCollectionLock = d <=> pc[d] \in LockedPcs
    /\ FilterDeviceCollectionLock = QueryThread <=>
           qpc \in {"q_count", "q_loop", "q_unlock"}
    /\ FilterDeviceCollectionLock \in Devices \cup {QueryThread, NoOwner}
C19_AcquireStep ==
    (FilterDeviceCollectionLock' # FilterDeviceCollectionLock
         /\ FilterDeviceCollectionLock' # NoOwner) =>
        FilterDeviceCollectionLock = NoOwner
C19_Completes ==
    /\ \A d \in Devices :
           /\ pc[d] \in AddPcs ~> pc[d] \in {"active", "nodevice"}
           /\ pc[d] \in CleanupPcs ~> pc[d] = "gone"
    /\ QueryInFlight ~> qpc = "completed"
    /\ []<>(FilterDeviceCollectionLock = NoOwner)
C19_LockReleasedAndProgress ==
    /\ []C19_LockMatchesPosition
    /\ [][C19_AcquireStep]_vars
    /\ C19_Completes
\* two threads wait for the lock while a third one owns it
C19_Witness ==
    /\ FilterDeviceCollectionLock \in Devices
    /\ qpc = "q_lock"
    /\ \E e \in Devices :
           /\ e # FilterDeviceCollectionLock
           /\ pc[e] \in {"a_lock", "c_lock"}

\* C20: FilterEvtIoDeviceControl never enumerates an empty collection: a
\* request that owns the lock and has taken the count finds at least one
\* device, no framework call having failed.
C20_QueryNeverSeesEmptyRegistry ==
    (faults = 0 /\ qpc \in {"q_loop", "q_unlock"}) => noItems > 0

\* C21: frame of a non-last cleanup and of a query. Every step that
\* FilterEvtDeviceContextCleanup takes for a device that is in the collection
\* together with at least one other device leaves ControlDevice and the
\* control device objects as they are and changes the collection only by
\* taking that device out, the other devices staying in their order; every
\* step of FilterEvtIoDeviceControl leaves the collection, ControlDevice and
\* the control device objects as they are.
C21_NonLastCleanupFrame ==
    \A d \in Devices :
        (/\ pc[d] \in {"active"} \cup CleanupPcs
         /\ pc'[d] \in CleanupPcs \cup {"gone"}
         /\ pc'[d] # pc[d]
         /\ Registered(d)
         /\ WdfCollectionGetCount(FilterDeviceCollection) > 1) =>
            /\ UNCHANGED <<ControlDevice, objState, objDeletes>>
            /\ \/ UNCHANGED FilterDeviceCollection
               \/ /\ pc[d] = "x_remove"
                  /\ FilterDeviceCollection' =
                         SelectSeq(FilterDeviceCollection,
                                   LAMBDA e : e # d)
            /\ pc'[d] = "x_unlock" => ~Registered(d)'
C21_QueryFrame ==
    (qpc' # qpc \/ noItems' # noItems \/ i' # i \/ printed' # printed) =>
        UNCHANGED <<FilterDeviceCollection, ControlDevice, objState,
                    objDeletes>>
C21_FrameOfCleanupAndQuery ==
    [][C21_NonLastCleanupFrame /\ C21_QueryFrame]_vars
\* the first of two registered devices has just been removed by its
\* cleanup: the other one and the control device are still there, and a
\* query has completed
C21_Witness ==
    \E d, e \in Devices :
        /\ pc[d] = "x_unlock"
        /\ count[d] = 2
        /\ FilterDeviceCollection = <<e>>
        /\ regOrder[1] = d
        /\ ControlDevice # NULL
        /\ qpc = "completed"

====
